---- MODULE Spec2Model ----
(***************************************************************************)
(* Model of compression/dna/codec/benchmarks.py: the file aligner, the     *)
(* format loader, the lazy and eager record sequencers, load_io_files and  *)
(* the task dispatcher (main) with the routines it can start.              *)
(*                                                                         *)
(* A path is a sequence of tokens: "/" and "." are the separators, every   *)
(* other token is a run of ordinary characters.  A decoded record is an    *)
(* array: a shape and the flat, row-major sequence of its scalars; the     *)
(* scalar at offset n of the file p is <<p, n>>.                           *)
(***************************************************************************)
EXTENDS Integers, Sequences, FiniteSets, TLC

\* ------------------------------------------------------------------ bounds
MaxFiles == 2        \* entries in one directory
MaxExtraPulls == 1   \* pulls made after the generator has finished

\* ------------------------------------------------------------ input domains
Names == {"a", "b"}
Exts == {"npy", "pkl", "ply", "xyz"}
Roles == <<"x", "y", "y_hat", "x_hat">>
RoleSet == {Roles[i] : i \in 1..Len(Roles)}
RoleExts(role) ==
  CASE role = "x" -> {"ply", "xyz"}
    [] role = "y" -> {"npy", "pkl"}
    [] role = "y_hat" -> {"npy"}
    [] OTHER -> {"ply"}
ShapeOf(role) == IF role \in {"x", "x_hat"} THEN <<2, 2>> ELSE <<1, 2>>
Entries(role) == [name : Names, ext : RoleExts(role)]
Listings(role) ==
  UNION {{l \in [1..n -> Entries(role)] : \A i, j \in 1..n : l[i] = l[j] => i = j} : n \in 0..MaxFiles}
OtherListing == <<[name |-> "z", ext |-> "xyz"]>>
Dir(role) == <<".", "/", role>>
PathOf(role, e) == Dir(role) \o <<"/", e.name, ".", e.ext>>

\* ------------------------------------------------------------------- state
VARIABLES
  entry,      \* the operation the run starts: "load_file", "load_io_files", "main"
  pc,         \* position of the run
  task,       \* args.task
  exception,  \* the exception argument of load_io_files
  fs,         \* role -> entries of its directory, in the order glob lists them
  ragged,     \* what this numpy build does with a ragged list: "object" or "error"
  fname,      \* the argument of a direct load_file call
  result,     \* outcome of the direct load_file call
  raw_files,  \* load_io_files: the listings handed to align_files
  files,      \* load_io_files: the aligned path lists
  groups,     \* the iterable handed to lazy_loader
  gen,        \* generator: "none", "created", "suspended", "finished"
  pos,        \* generator: index of the next group
  pulls,      \* one record per next() on the generator
  eager,      \* loader(files[i]) for the roles loaded so far
  invoked,    \* routines whose body has been entered
  emitted,    \* console lines, plots and files the routine has produced
  err         \* exception that ended the run, "none" if there is none

vars == <<entry, pc, task, exception, fs, ragged, fname, result, raw_files, files,
          groups, gen, pos, pulls, eager, invoked, emitted, err>>

\* ------------------------------------------------- utils: the name extractor
LastIndexOf(s, t) ==
  IF \E i \in 1..Len(s) : s[i] = t
  THEN CHOOSE i \in 1..Len(s) : s[i] = t /\ \A j \in (i+1)..Len(s) : s[j] # t
  ELSE 0
basename(p) == SubSeq(p, LastIndexOf(p, "/") + 1, Len(p))
extract_path(p) == SubSeq(p, 1, LastIndexOf(p, "/") - 1)
extract_ext(p) == SubSeq(p, LastIndexOf(p, ".") + 1, Len(p))
extract_name(p) ==
  LET b == basename(p)
      d == LastIndexOf(b, ".")
  IN IF d = 0 THEN b ELSE SubSeq(b, 1, d - 1)

\* ------------------------------------------------------------------ arrays
None == [kind |-> "None", dtype |-> "none", shape |-> <<>>, data |-> <<>>]

RECURSIVE Size(_)
Size(shape) == IF shape = <<>> THEN 1 ELSE shape[1] * Size(Tail(shape))

RoleOfPath(p) == LET d == extract_path(p) IN IF d = <<>> THEN "" ELSE d[Len(d)]
Exists(p, fsys) == \E r \in RoleSet : \E i \in 1..Len(fsys[r]) : PathOf(r, fsys[r][i]) = p
FileRecord(p, kind) ==
  [kind |-> kind, dtype |-> "num", shape |-> ShapeOf(RoleOfPath(p)),
   data |-> [n \in 1..Size(ShapeOf(RoleOfPath(p))) |-> <<p, n>>]]

\* ------------------------------------------------------------ format loader
np_load(p, fsys) ==
  IF Exists(p, fsys)
  THEN [outcome |-> "ok", value |-> FileRecord(p, "ndarray"), reads |-> <<p>>, decoder |-> "np.load"]
  ELSE [outcome |-> "FileNotFoundError", value |-> None, reads |-> <<p>>, decoder |-> "np.load"]
PyntCloud_points(p, fsys) ==
  IF Exists(p, fsys)
  THEN [outcome |-> "ok", value |-> FileRecord(p, "DataFrame"), reads |-> <<p>>, decoder |-> "PyntCloud.from_file"]
  ELSE [outcome |-> "FileNotFoundError", value |-> None, reads |-> <<p>>, decoder |-> "PyntCloud.from_file"]

\* load_file with the final raise forgotten: an unknown extension is read as npy
load_file_fallthrough(p, fsys) ==
  LET ext == extract_ext(p) IN
  IF ext = <<"pkl">> THEN [outcome |-> "NameError", value |-> None, reads |-> <<>>, decoder |-> "none"]
  ELSE IF ext = <<"ply">> THEN PyntCloud_points(p, fsys)
  ELSE np_load(p, fsys)

\* load_file(fname), lines 45-57; pickle is not imported by the module, so the
\* name pickle on line 53 raises NameError before the file is opened
load_file(p, fsys) ==
  LET ext == extract_ext(p) IN
  IF ext = <<"npy">> THEN np_load(p, fsys)
  ELSE IF ext = <<"pkl">>
    THEN [outcome |-> "NameError", value |-> None, reads |-> <<>>, decoder |-> "none"]
  ELSE IF ext = <<"ply">> THEN PyntCloud_points(p, fsys)
  ELSE [outcome |-> "Exception", value |-> None, reads |-> <<>>, decoder |-> "none"]

\* -------------------------------------------------------------- file aligner
RECURSIVE Intersection(_)
Intersection(sets) ==
  IF Len(sets) = 1 THEN sets[1] ELSE sets[1] \cap Intersection(Tail(sets))
RECURSIVE UnionOf(_)
UnionOf(sets) ==
  IF Len(sets) = 0 THEN {} ELSE sets[1] \cup UnionOf(Tail(sets))

names_of(directory) == {extract_name(directory[i]) : i \in 1..Len(directory)}
common_names(directories) ==
  Intersection([i \in 1..Len(directories) |-> names_of(directories[i])])

\* The orders in which a set of the names of the listings can be iterated.
IterOrders(directories) ==
  LET all == UnionOf([i \in 1..Len(directories) |-> names_of(directories[i])])
  IN {o \in [1..Cardinality(all) -> all] : \A i, j \in 1..Cardinality(all) : o[i] = o[j] => i = j}
InOrder(set, iter) == SelectSeq(iter, LAMBDA n : n \in set)
Reverse(s) == [i \in 1..Len(s) |-> s[Len(s) + 1 - i]]

\* line 43 for one directory: a path per common name, with the prefix and the
\* extension of the first entry of the listing
AlignedPaths(directory, common) ==
  [k \in 1..Len(common) |->
     extract_path(directory[1]) \o <<"/">> \o common[k] \o <<".">> \o extract_ext(directory[1])]

\* align_files keeping the names of the first directory instead of the common ones
align_files_first_names(directories, iter) ==
  IF \E i \in 1..Len(directories) : Len(directories[i]) = 0
  THEN [outcome |-> "AssertionError", files |-> <<>>]
  ELSE [outcome |-> "ok",
        files |-> [i \in 1..Len(directories) |->
                     AlignedPaths(directories[i], InOrder(names_of(directories[1]), iter))]]

\* align_files ordering every other role's list on its own
align_files_own_order(directories, iter) ==
  IF \E i \in 1..Len(directories) : Len(directories[i]) = 0
  THEN [outcome |-> "AssertionError", files |-> <<>>]
  ELSE [outcome |-> "ok",
        files |-> [i \in 1..Len(directories) |->
                     AlignedPaths(directories[i],
                                  IF i % 2 = 0
                                  THEN Reverse(InOrder(common_names(directories), iter))
                                  ELSE InOrder(common_names(directories), iter))]]

\* align_files asserting any(...) instead of all(...): directory[0] of an empty
\* listing then raises IndexError
align_files_any(directories, iter) ==
  IF \A i \in 1..Len(directories) : Len(directories[i]) = 0
  THEN [outcome |-> "AssertionError", files |-> <<>>]
  ELSE IF \E i \in 1..Len(directories) : Len(directories[i]) = 0
  THEN [outcome |-> "IndexError", files |-> <<>>]
  ELSE [outcome |-> "ok",
        files |-> [i \in 1..Len(directories) |->
                     AlignedPaths(directories[i], InOrder(common_names(directories), iter))]]

\* align_files(*directories), lines 32-43; iter is the order in which this
\* process iterates over a set of names
align_files(directories, iter) ==
  IF \E i \in 1..Len(directories) : Len(directories[i]) = 0
  THEN [outcome |-> "AssertionError", files |-> <<>>]
  ELSE [outcome |-> "ok",
        files |-> [i \in 1..Len(directories) |->
                     AlignedPaths(directories[i], InOrder(common_names(directories), iter))]]

\* ----------------------------------------------------------------- numpy
RECURSIVE Flatten(_)
Flatten(values) ==
  IF values = <<>> THEN <<>> ELSE values[1].data \o Flatten(Tail(values))

np_array(values, rag) ==
  IF \A i \in 1..Len(values) : values[i].shape = values[1].shape
  THEN [outcome |-> "ok",
        value |-> [kind |-> "ndarray", dtype |-> "num",
                   shape |-> <<Len(values)>> \o values[1].shape, data |-> Flatten(values)]]
  ELSE IF rag = "object"
  THEN [outcome |-> "ok",
        value |-> [kind |-> "ndarray", dtype |-> "object", shape |-> <<Len(values)>>, data |-> values]]
  ELSE [outcome |-> "ValueError", value |-> None]

np_squeeze(a) == [a EXCEPT !.shape = SelectSeq(a.shape, LAMBDA d : d # 1)]

\* a[i] for an array of at least one dimension, i counted from 1
Index(a, i) ==
  IF a.dtype = "object" THEN a.data[i]
  ELSE LET rest == Tail(a.shape)
       IN [kind |-> "ndarray", dtype |-> "num", shape |-> rest,
           data |-> SubSeq(a.data, (i - 1) * Size(rest) + 1, i * Size(rest))]

\* ------------------------------------------------------- record sequencers
\* [load_file(fname) for fname in paths], r the first load and rest the others
LoadStep(r, rest) ==
  IF r.outcome # "ok" THEN [outcome |-> r.outcome, values |-> <<>>, reads |-> r.reads]
  ELSE [outcome |-> rest.outcome,
        values |-> IF rest.outcome = "ok" THEN <<r.value>> \o rest.values ELSE <<>>,
        reads |-> r.reads \o rest.reads]
RECURSIVE LoadAll(_, _)
LoadAll(paths, fsys) ==
  IF paths = <<>> THEN [outcome |-> "ok", values |-> <<>>, reads |-> <<>>]
  ELSE LoadStep(load_file(paths[1], fsys), LoadAll(Tail(paths), fsys))

\* np.squeeze(l): l the list of loaded records, a the array numpy makes of it
Squeezed(l, a) ==
  IF a.outcome # "ok" THEN [outcome |-> a.outcome, value |-> None, reads |-> l.reads]
  ELSE [outcome |-> "ok", value |-> np_squeeze(a.value), reads |-> l.reads]
SqueezeLoaded(l, rag) ==
  IF l.outcome # "ok" THEN [outcome |-> l.outcome, value |-> None, reads |-> l.reads]
  ELSE Squeezed(l, np_array(l.values, rag))

\* lazy_loader loading the files of a group last role first
lazy_element_reversed(slice_files, fsys, rag) ==
  SqueezeLoaded(LoadAll(Reverse(slice_files), fsys), rag)

\* the body of one iteration of lazy_loader: the element for slice_files
lazy_element(slice_files, fsys, rag) == SqueezeLoaded(LoadAll(slice_files, fsys), rag)

\* next() on the generator lazy_loader(grps, args)
Yield(p, e) ==
  IF e.outcome = "ok"
  THEN [gen |-> "suspended", pos |-> p + 1, pull |-> e]
  ELSE [gen |-> "finished", pos |-> p, pull |-> e]
\* a sequence that starts over when it is pulled after its last element
lazy_next_restart(g, p, grps, fsys, rag) ==
  IF p > Len(grps) /\ g # "finished"
  THEN [gen |-> "finished", pos |-> p,
        pull |-> [outcome |-> "StopIteration", value |-> None, reads |-> <<>>]]
  ELSE IF grps = <<>> \/ (g = "finished" /\ p <= Len(grps))
  THEN [gen |-> "finished", pos |-> p,
        pull |-> [outcome |-> "StopIteration", value |-> None, reads |-> <<>>]]
  ELSE Yield(IF p > Len(grps) THEN 1 ELSE p,
             lazy_element(grps[IF p > Len(grps) THEN 1 ELSE p], fsys, rag))

lazy_next(g, p, grps, fsys, rag) ==
  IF g = "finished" \/ p > Len(grps)
  THEN [gen |-> "finished", pos |-> p,
        pull |-> [outcome |-> "StopIteration", value |-> None, reads |-> <<>>]]
  ELSE Yield(p, lazy_element(grps[p], fsys, rag))

loader(paths, fsys) == LoadAll(paths, fsys)

\* ------------------------------------------------------------ load_io_files
glob(role, fsys) == [i \in 1..Len(fsys[role]) |-> PathOf(role, fsys[role][i])]
Selected(exc) == SelectSeq(Roles, LAMBDA r : r \notin exc)
Min(S) == CHOOSE m \in S : \A n \in S : m <= n
zip(lists) ==
  [k \in 1..Min({Len(lists[i]) : i \in 1..Len(lists)}) |-> [i \in 1..Len(lists) |-> lists[i][k]]]
reshape_column(lists) == [k \in 1..Len(lists[1]) |-> <<lists[1][k]>>]

Sequenced(raw, al) ==
  [outcome |-> al.outcome, raw_files |-> raw, files |-> al.files,
   groups |-> IF al.outcome # "ok" THEN <<>>
              ELSE IF Len(al.files) > 1 THEN zip(al.files) ELSE reshape_column(al.files)]
Globbed(fsys, exc) == [i \in 1..Len(Selected(exc)) |-> glob(Selected(exc)[i], fsys)]
\* load_io_files listing every role, the exception ignored
load_io_files_all(fsys, exc, iter) ==
  Sequenced(Globbed(fsys, {}), align_files(Globbed(fsys, {}), iter))

\* load_io_files(args, exception), lines 72-78
load_io_files(fsys, exc, iter) ==
  Sequenced(Globbed(fsys, exc), align_files(Globbed(fsys, exc), iter))

\* ---------------------------------------------------------------- dispatcher
\* the allow-list with "play" left out
tasks_without_play == <<"bypass_dna", "quantization_tables", "quantization",
                        "evaluate_y_reconstruction", "study_output_analysis">>

tasks == <<"bypass_dna", "quantization_tables", "quantization",
           "evaluate_y_reconstruction", "play", "study_output_analysis">>
TaskSet == {tasks[i] : i \in 1..Len(tasks)}
TaskNames == {"bypass_dna", "quantization_tables", "quantization", "evaluate_y_reconstruction",
              "play", "study_output_analysis", "nonexistent_task"}
\* globals()[args.task]: the routine bound to the name
routine_of(name) == name

\* -------------------------------------------------------------------- Init
NoResult == [outcome |-> "none", value |-> None, reads |-> <<>>, decoder |-> "none"]
OtherFs == [r \in RoleSet |-> OtherListing]
SampleFs ==
  [r \in RoleSet |-> <<[name |-> "a",
                        ext |-> CASE r = "x" -> "ply" [] r = "y" -> "npy"
                                  [] r = "y_hat" -> "pkl" [] OTHER -> "xyz"]>>]
HarnessExceptions == {{"x", "y_hat", "x_hat"}, {"x", "x_hat"}, {"y", "y_hat"}, {"x"}}
ListingsFor(r, exc) == IF r \in exc THEN {OtherListing} ELSE Listings(r)
FsFor(exc) ==
  {[r \in RoleSet |-> CASE r = "x" -> lx [] r = "y" -> ly [] r = "y_hat" -> lyh [] OTHER -> lxh] :
     lx \in ListingsFor("x", exc), ly \in ListingsFor("y", exc),
     lyh \in ListingsFor("y_hat", exc), lxh \in ListingsFor("x_hat", exc)}
\* the directories of the reconstructions hold every name
FullListing(r) == <<[name |-> "a", ext |-> CHOOSE e \in RoleExts(r) : TRUE],
                    [name |-> "b", ext |-> CHOOSE e \in RoleExts(r) : TRUE]>>
StudyFs ==
  {[r \in RoleSet |-> CASE r = "x" -> lx [] r = "y" -> ly [] OTHER -> FullListing(r)] :
     lx \in Listings("x"), ly \in Listings("y")}
RaggedFor(exc) == IF Len(Selected(exc)) > 2 THEN {"object", "error"} ELSE {"object"}

InitCommon ==
  /\ result = NoResult
  /\ raw_files = <<>>
  /\ files = <<>>
  /\ groups = <<>>
  /\ gen = "none"
  /\ pos = 1
  /\ pulls = <<>>
  /\ eager = <<>>
  /\ invoked = <<>>
  /\ emitted = <<>>
  /\ err = "none"

InitLoadFile ==
  /\ entry = "load_file"
  /\ pc = "load_file"
  /\ task = "play"
  /\ exception = {}
  /\ fs = SampleFs
  /\ ragged = "object"
  /\ fname \in {PathOf(r, [name |-> n, ext |-> e]) : r \in RoleSet, n \in Names, e \in Exts}

InitHarness ==
  /\ entry = "load_io_files"
  /\ pc = "load_io_files"
  /\ task = "play"
  /\ exception \in HarnessExceptions
  /\ fs \in FsFor(exception)
  /\ ragged \in RaggedFor(exception)
  /\ fname = <<>>

InitMain ==
  /\ entry = "main"
  /\ pc = "main"
  /\ task \in TaskNames
  /\ exception = {}
  /\ fname = <<>>
  /\ CASE task = "evaluate_y_reconstruction" ->
            /\ fs \in FsFor({"x", "x_hat"})
            /\ ragged = "object"
       [] task = "study_output_analysis" ->
            /\ fs \in StudyFs
            /\ ragged \in {"object", "error"}
       [] OTHER ->
            /\ fs = OtherFs
            /\ ragged = "object"

Init == InitCommon /\ (InitLoadFile \/ InitHarness \/ InitMain)

\* ----------------------------------------------------------------- actions
Out(what, of) == [what |-> what, of |-> of]
Oks(ps) == SelectSeq(ps, LAMBDA q : q.outcome = "ok")
Elements(ps) == [k \in 1..Len(Oks(ps)) |-> Oks(ps)[k].value]
ExtraPulls == IF gen = "finished" THEN Len(pulls) - Len(Oks(pulls)) - 1 ELSE 0

\* a direct call load_file(fname)
LoadFile ==
  /\ pc = "load_file"
  /\ result' = load_file(fname, fs)
  /\ pc' = IF result'.outcome = "ok" THEN "returned" ELSE "raised"
  /\ err' = IF result'.outcome = "ok" THEN "none" ELSE result'.outcome
  /\ UNCHANGED <<entry, task, exception, fs, ragged, fname, raw_files, files, groups,
                 gen, pos, pulls, eager, invoked, emitted>>

\* files = load_io_files(args, exception=exc), then control goes to after
CallLoadIoFiles(exc, after) ==
  \E iter \in IterOrders(Globbed(fs, exc)) : \E r \in {load_io_files(fs, exc, iter)} :
    /\ raw_files' = r.raw_files
    /\ files' = r.files
    /\ groups' = r.groups
    /\ gen' = IF r.outcome = "ok" THEN "created" ELSE "none"
    /\ pc' = IF r.outcome = "ok" THEN after ELSE "raised"
    /\ err' = IF r.outcome = "ok" THEN "none" ELSE r.outcome
    /\ UNCHANGED <<entry, task, exception, fs, ragged, fname, result, pos, pulls, eager>>

\* the harness calls load_io_files(args, exception)
HarnessLoadIoFiles ==
  /\ pc = "load_io_files"
  /\ CallLoadIoFiles(exception, "consume")
  /\ UNCHANGED <<invoked, emitted>>

\* the harness pulls the next element, and keeps pulling after the end
HarnessPull ==
  /\ pc = "consume"
  /\ gen # "finished" \/ ExtraPulls < MaxExtraPulls
  /\ \E n \in {lazy_next(gen, pos, groups, fs, ragged)} :
     /\ gen' = n.gen
     /\ pos' = n.pos
     /\ pulls' = Append(pulls, n.pull)
  /\ UNCHANGED <<entry, pc, task, exception, fs, ragged, fname, result, raw_files, files,
                 groups, eager, invoked, emitted, err>>

\* the harness calls loader(files[i], args) for the next role
HarnessLoader ==
  /\ pc = "consume"
  /\ gen = "finished"
  /\ ExtraPulls = MaxExtraPulls
  /\ eager' = Append(eager, loader(files[Len(eager) + 1], fs))
  /\ pc' = IF Len(eager') = Len(files) THEN "done" ELSE "consume"
  /\ UNCHANGED <<entry, task, exception, fs, ragged, fname, result, raw_files, files,
                 groups, gen, pos, pulls, invoked, emitted, err>>

\* main(cfg)
Main ==
  /\ pc = "main"
  /\ IF task \notin TaskSet
     THEN pc' = "raised" /\ err' = "ValueError"
     ELSE pc' = routine_of(task) /\ err' = "none"
  /\ UNCHANGED <<entry, task, exception, fs, ragged, fname, result, raw_files, files,
                 groups, gen, pos, pulls, eager, invoked, emitted>>

Returns(name, outputs) ==
  /\ pc = name
  /\ invoked' = Append(invoked, name)
  /\ emitted' = emitted \o outputs
  /\ pc' = "done"
  /\ UNCHANGED <<entry, task, exception, fs, ragged, fname, result, raw_files, files,
                 groups, gen, pos, pulls, eager, err>>

play == Returns("play", <<>>)

\* the dataset, the model and the writer are external services
bypass_dna == Returns("bypass_dna", <<Out("makedirs", <<"bypass_dna", "/", "x_hat">>)>>)

quantization_tables ==
  Returns("quantization_tables",
          <<Out("print", <<"default", "dct">>), Out("print", <<"default", "no dct">>),
            Out("print", <<"ones", "dct">>)>>)

quantization == Returns("quantization", <<>>)

\* evaluate_y_reconstruction, line 142
EvalLoad ==
  /\ pc = "evaluate_y_reconstruction"
  /\ invoked' = Append(invoked, "evaluate_y_reconstruction")
  /\ CallLoadIoFiles({"x", "x_hat"}, "eval_list")
  /\ UNCHANGED emitted

\* rows a[0], a[1], ... that iterating over a yields; -1 for a 0-d array
Rows(a) == IF a.shape = <<>> THEN -1 ELSE a.shape[1]
Source(r) == IF r.data = <<>> THEN <<>> ELSE r.data[1][1]

\* how many tuples zip(*els) yields; -1 when an element cannot be iterated
Zipped(els) == IF els = <<>> THEN 0 ELSE Min({Rows(els[k]) : k \in 1..Len(els)})

\* lines 143-147 after one next() of list(zip(*files)): els are the elements
\* pulled before, out what the routine has emitted
eval_step(pull, els, out) ==
  IF pull.outcome = "ok" THEN [pc |-> "eval_list", err |-> "none", emitted |-> out]
  ELSE IF pull.outcome # "StopIteration"
  THEN [pc |-> "raised", err |-> pull.outcome, emitted |-> out]
  ELSE IF Zipped(els) < 0 THEN [pc |-> "raised", err |-> "TypeError", emitted |-> out]
  ELSE IF Zipped(els) # 2 THEN [pc |-> "raised", err |-> "ValueError", emitted |-> out]
  ELSE [pc |-> "done", err |-> "none",
        emitted |-> out \o <<Out("MSE", <<>>), Out("Max", <<>>), Out("Min", <<>>)>>]

\* evaluate_y_reconstruction, lines 143-147: one next() of list(zip(*files)),
\* and at the end of the generator the unpacking and the three prints
EvalPull ==
  /\ pc = "eval_list"
  /\ \E n \in {lazy_next(gen, pos, groups, fs, ragged)} :
     \E st \in {eval_step(n.pull, Elements(pulls), emitted)} :
     /\ gen' = n.gen
     /\ pos' = n.pos
     /\ pulls' = Append(pulls, n.pull)
     /\ pc' = st.pc
     /\ err' = st.err
     /\ emitted' = st.emitted
  /\ UNCHANGED <<entry, task, exception, fs, ragged, fname, result, raw_files, files,
                 groups, eager, invoked>>

\* study_output_analysis, line 178
StudyLoad ==
  /\ pc = "study_output_analysis"
  /\ invoked' = Append(invoked, "study_output_analysis")
  /\ CallLoadIoFiles({}, "study_loop")
  /\ UNCHANGED emitted

\* x.plot(...) exists for a points table, not for an ndarray
HasPlot(r) == r.kind = "DataFrame"

\* lines 179-182 for the element e: the unpacking, the two plots, plt.show()
plot_step(e, out) ==
  IF Rows(e) < 0 THEN [pc |-> "raised", err |-> "TypeError", emitted |-> out]
  ELSE IF Rows(e) # 4 THEN [pc |-> "raised", err |-> "ValueError", emitted |-> out]
  ELSE IF ~HasPlot(Index(e, 1)) THEN [pc |-> "raised", err |-> "AttributeError", emitted |-> out]
  ELSE IF ~HasPlot(Index(e, 4))
  THEN [pc |-> "raised", err |-> "AttributeError",
        emitted |-> Append(out, Out("hist", Source(Index(e, 1))))]
  ELSE [pc |-> "study_loop", err |-> "none",
        emitted |-> out \o <<Out("hist", Source(Index(e, 1))), Out("hist", Source(Index(e, 4))),
                             Out("show", <<>>)>>]

\* the for loop going on to the next group when a group fails to load
study_step_skip(pull, out) ==
  IF pull.outcome = "StopIteration" THEN [pc |-> "done", err |-> "none", emitted |-> out]
  ELSE IF pull.outcome # "ok" THEN [pc |-> "study_loop", err |-> "none", emitted |-> out]
  ELSE plot_step(pull.value, out)

\* one iteration of the for loop of line 179 after its next()
study_step(pull, out) ==
  IF pull.outcome = "StopIteration" THEN [pc |-> "done", err |-> "none", emitted |-> out]
  ELSE IF pull.outcome # "ok" THEN [pc |-> "raised", err |-> pull.outcome, emitted |-> out]
  ELSE plot_step(pull.value, out)

\* study_output_analysis, lines 179-182: one iteration of the for loop
StudyIteration ==
  /\ pc = "study_loop"
  /\ \E n \in {lazy_next(gen, pos, groups, fs, ragged)} :
     \E st \in {study_step(n.pull, emitted)} :
     /\ gen' = n.gen
     /\ pos' = n.pos
     /\ pulls' = Append(pulls, n.pull)
     /\ pc' = st.pc
     /\ err' = st.err
     /\ emitted' = st.emitted
  /\ UNCHANGED <<entry, task, exception, fs, ragged, fname, result, raw_files, files,
                 groups, eager, invoked>>

Next ==
  \/ LoadFile
  \/ HarnessLoadIoFiles
  \/ HarnessPull
  \/ HarnessLoader
  \/ Main
  \/ play
  \/ bypass_dna
  \/ quantization_tables
  \/ quantization
  \/ EvalLoad
  \/ EvalPull
  \/ StudyLoad
  \/ StudyIteration

Spec == Init /\ [][Next]_vars

\* -------------------------------------------------------------- properties
\* Vocabulary of the properties below.
Called == raw_files # <<>>
Aligned == gen # "none"
CurrentException ==
  IF entry # "main" THEN exception
  ELSE IF task = "evaluate_y_reconstruction" THEN {"x", "x_hat"} ELSE {}
NamesIn(listing) == {extract_name(listing[j]) : j \in 1..Len(listing)}
AllListed == UNION {NamesIn(raw_files[i]) : i \in 1..Len(raw_files)}
InEvery == {n \in AllListed : \A i \in 1..Len(raw_files) : n \in NamesIn(raw_files[i])}
LastToken(p) == p[Len(p)]
Recognized == {"npy", "pkl", "ply"}

\* C1: once align_files has returned, it has returned one list per listing, every
\* list is as long as the set of names present in every listing is large, and the
\* name extracted from every returned path is one of those names.
C1_AlignIntersection ==
  Aligned =>
    /\ Len(files) = Len(raw_files)
    /\ \A i \in 1..Len(files) :
         /\ Len(files[i]) = Cardinality(InEvery)
         /\ \A k \in 1..Len(files[i]) : extract_name(files[i][k]) \in InEvery

\* three listings, two names, one of them missing from a listing and dropped
C1_Witness ==
  /\ Aligned
  /\ Len(files) = 3
  /\ Cardinality(AllListed) = 2
  /\ Cardinality(InEvery) = 1
  /\ Len(files[1]) = 1

\* C2: the lists align_files returns are aligned by position: the k-th paths of
\* any two roles have the same base name.
C2_PositionAligned ==
  Aligned =>
    \A i, j \in 1..Len(files) : \A k \in 1..Len(files[i]) :
      /\ k <= Len(files[j])
      /\ extract_name(files[i][k]) = extract_name(files[j][k])

\* at least two roles and two different common names
C2_Witness ==
  /\ Aligned
  /\ Len(files) >= 2
  /\ Len(files[2]) = 2
  /\ extract_name(files[2][1]) # extract_name(files[2][2])

\* C3: when a listing handed to align_files is empty (a directory of a role that
\* is not excepted has no entry), the call ends in the assertion error: no path
\* list is returned, no generator is made, no file is read and nothing is emitted.
C3_EmptyListingFails ==
  (Called /\ (\/ \E i \in 1..Len(raw_files) : raw_files[i] = <<>>
              \/ \E r \in RoleSet \ CurrentException : fs[r] = <<>>)) =>
    /\ pc = "raised"
    /\ err = "AssertionError"
    /\ files = <<>>
    /\ groups = <<>>
    /\ gen = "none"
    /\ pulls = <<>>
    /\ eager = <<>>
    /\ emitted = <<>>

\* an empty listing next to a listing with entries
C3_Witness ==
  /\ Called
  /\ Len(raw_files) >= 2
  /\ raw_files[1] # <<>>
  /\ \E i \in 1..Len(raw_files) : raw_files[i] = <<>>
  /\ err = "AssertionError"

\* C4: load_file on a path whose extension is none of npy, pkl, ply raises the
\* unknown-extension error, returns no value and reads no file; the same holds
\* when the generator loads such a path first in a group.
C4_UnsupportedExtension ==
  /\ (entry = "load_file" /\ pc # "load_file" /\ LastToken(fname) \notin Recognized) =>
       /\ pc = "raised"
       /\ err = "Exception"
       /\ result.outcome = "Exception"
       /\ result.value = None
       /\ result.reads = <<>>
  /\ \A k \in 1..Len(pulls) :
       (/\ k <= Len(groups)
        /\ \A j \in 1..(k - 1) : pulls[j].outcome = "ok"
        /\ LastToken(groups[k][1]) \notin Recognized) =>
         /\ pulls[k].outcome = "Exception"
         /\ pulls[k].value = None
         /\ pulls[k].reads = <<>>

\* the file exists, and load_file still refuses it
C4_Witness ==
  /\ entry = "load_file"
  /\ pc = "raised"
  /\ LastToken(fname) = "xyz"
  /\ Exists(fname, fs)

\* C5: for a path with extension npy, pkl or ply load_file runs the decoder of
\* that format, reads the file once, and does not end in an error of the dispatch
\* itself; the record of an existing file is returned.
C5_DispatchOnExtension ==
  (entry = "load_file" /\ pc # "load_file" /\ LastToken(fname) \in Recognized) =>
    /\ result.decoder = CASE LastToken(fname) = "npy" -> "np.load"
                          [] LastToken(fname) = "pkl" -> "pickle.load"
                          [] OTHER -> "PyntCloud.from_file"
    /\ result.reads = <<fname>>
    /\ err \notin {"NameError", "Exception"}
    /\ Exists(fname, fs) => (result.outcome = "ok" /\ Source(result.value) = fname)

\* C6: main starts a routine exactly when args.task is in the allow-list: an
\* unknown name raises ValueError with nothing invoked, nothing listed and nothing
\* emitted; an allowed name invokes the routine of that name, once, and no other.
C6_AllowList == {"bypass_dna", "quantization_tables", "quantization",
                 "evaluate_y_reconstruction", "play", "study_output_analysis"}
C6_Dispatch ==
  entry = "main" =>
    /\ (pc # "main" /\ task \notin C6_AllowList) =>
         (pc = "raised" /\ err = "ValueError" /\ invoked = <<>> /\ emitted = <<>> /\ ~Called)
    /\ (pc \notin {"main", task} /\ task \in C6_AllowList) => invoked = <<task>>
    /\ pc \in {"main", task} => invoked = <<>>
    /\ (task = "play" /\ pc = "done") => emitted = <<>>

\* an allowed routine has run to its end
C6_Witness ==
  /\ entry = "main"
  /\ task = "quantization_tables"
  /\ pc = "done"
  /\ invoked = <<"quantization_tables">>
  /\ Len(emitted) = 3

\* C7 as claimed: when the lazy sequence has been materialised and loader has
\* loaded every role's list, the record at role i of the k-th lazy element is
\* the k-th record of loader(files[i]).
C7_Complete ==
  /\ entry = "load_io_files"
  /\ pc = "done"
  /\ Len(Oks(pulls)) = Len(groups)
  /\ \A i \in 1..Len(eager) : eager[i].outcome = "ok"
C7_Same(a, b) == a.shape = b.shape /\ a.data = b.data
C7_NoSingleton(shape) == SelectSeq(shape, LAMBDA d : d # 1)
C7_LazyEqualsEager ==
  C7_Complete =>
    \A k \in 1..Len(groups) : \A i \in 1..Len(files) :
      C7_Same(Index(Elements(pulls)[k], i), eager[i].values[k])

\* C7 as amended: for two or more roles the record at role i of the k-th lazy
\* element holds the values of the k-th record of loader(files[i]) in the same
\* order, and the two have the same shape once the dimensions of size 1 are
\* dropped from both; for a single role the k-th lazy element is itself that
\* record with its dimensions of size 1 dropped.
C7_LazyEqualsEagerSqueezed ==
  C7_Complete =>
    \A k \in 1..Len(groups) :
      IF Len(files) = 1
      THEN /\ Elements(pulls)[k].data = eager[1].values[k].data
           /\ Elements(pulls)[k].shape = C7_NoSingleton(eager[1].values[k].shape)
      ELSE \A i \in 1..Len(files) :
             /\ Index(Elements(pulls)[k], i).data = eager[i].values[k].data
             /\ C7_NoSingleton(Index(Elements(pulls)[k], i).shape)
                  = C7_NoSingleton(eager[i].values[k].shape)

\* y and y_hat, two groups, records with a dimension of size 1
C7_Witness ==
  /\ C7_Complete
  /\ exception = {"x", "x_hat"}
  /\ Len(groups) = 2

\* C8: the generator reads nothing before it is pulled; the k-th pull that
\* yields reads exactly the paths of the k-th group, in role order; the pull that
\* exhausts it comes after as many elements as there are groups; a pull that
\* raises has read paths of its own group only; and every pull after the
\* generator has ended yields nothing and reads nothing.
C8_SinglePass ==
  /\ gen \in {"none", "created"} => pulls = <<>>
  /\ Len(Oks(pulls)) <= Len(groups)
  /\ \A k \in 1..Len(pulls) :
       /\ pulls[k].outcome = "ok" =>
            /\ k <= Len(groups)
            /\ pulls[k].reads = groups[k]
            /\ \A j \in 1..(k - 1) : pulls[j].outcome = "ok"
       /\ (pulls[k].outcome = "StopIteration" /\ \A j \in 1..(k - 1) : pulls[j].outcome = "ok") =>
            k = Len(groups) + 1
       /\ pulls[k].outcome = "StopIteration" => (pulls[k].reads = <<>> /\ pulls[k].value = None)
       /\ (\E j \in 1..(k - 1) : pulls[j].outcome # "ok") =>
            (pulls[k].outcome = "StopIteration" /\ pulls[k].reads = <<>>)
       /\ pulls[k].outcome \notin {"ok", "StopIteration"} =>
            /\ k <= Len(groups)
            /\ Len(pulls[k].reads) <= Len(groups[k])
            /\ \A n \in 1..Len(pulls[k].reads) : pulls[k].reads[n] = groups[k][n]

\* two elements yielded, the end, and one more pull after the end
C8_Witness ==
  /\ Len(pulls) = 4
  /\ Len(files) >= 2
  /\ pulls[1].outcome = "ok"
  /\ pulls[2].outcome = "ok"
  /\ pulls[3].outcome = "StopIteration"
  /\ pulls[4].outcome = "StopIteration"

\* C9 as claimed: when a file of the k-th group fails to load while a routine
\* consumes the sequence, the routine ends with that error and has emitted
\* nothing, for no group.
C9_LoadErrors == {"FileNotFoundError", "NameError", "Exception"}
C9_LoadFailed ==
  /\ entry = "main"
  /\ pulls # <<>>
  /\ pulls[Len(pulls)].outcome \in C9_LoadErrors
C9_NoPartialResults ==
  C9_LoadFailed =>
    /\ pc = "raised"
    /\ err = pulls[Len(pulls)].outcome
    /\ emitted = <<>>

RECURSIVE C9_Plots(_)
C9_Plots(n) ==
  IF n = 0 THEN <<>>
  ELSE C9_Plots(n - 1) \o <<Out("hist", groups[n][1]), Out("hist", groups[n][4]), Out("show", <<>>)>>

\* C9 as amended: when a file of the k-th group fails to load, the routine ends
\* with that error and no later group is loaded (a failed pull is the last pull);
\* evaluate_y_reconstruction has emitted nothing, and study_output_analysis has
\* emitted the two histograms and the show of each of the k-1 groups before,
\* and nothing for the k-th group or a later one.
C9_AbortKeepsEarlierOutput ==
  /\ entry = "main" => \A j \in 1..(Len(pulls) - 1) : pulls[j].outcome = "ok"
  /\ C9_LoadFailed =>
       /\ pc = "raised"
       /\ err = pulls[Len(pulls)].outcome
       /\ task = "evaluate_y_reconstruction" => emitted = <<>>
       /\ task = "study_output_analysis" => emitted = C9_Plots(Len(pulls) - 1)

\* study_output_analysis has plotted the first group and the second fails to load
C9_Witness ==
  /\ C9_LoadFailed
  /\ task = "study_output_analysis"
  /\ Len(pulls) = 2
  /\ Len(emitted) = 3

\* C10: load_io_files lists exactly the directories of the roles that are not
\* excepted, in the order of the configuration; the sequence it returns has one
\* group per common base name; every group holds one path per such role, in that
\* order, all of one base name (for a single role: groups of one path); every
\* element yielded holds the records of its group's paths in that order, and
\* every file read lies in the directory of a role that is not excepted.
RECURSIVE C10_Runs(_)
C10_Runs(s) ==
  IF Len(s) <= 1 THEN s
  ELSE IF s[1] = s[2] THEN C10_Runs(Tail(s)) ELSE <<s[1]>> \o C10_Runs(Tail(s))
C10_Sources(v) ==
  IF v.dtype = "object" THEN [i \in 1..Len(v.data) |-> Source(v.data[i])]
  ELSE C10_Runs([n \in 1..Len(v.data) |-> v.data[n][1]])
C10_Roles == SelectSeq(Roles, LAMBDA r : r \notin CurrentException)
C10_LoadIoFiles ==
  Aligned =>
    /\ Len(raw_files) = Len(C10_Roles)
    /\ \A i \in 1..Len(raw_files) :
         raw_files[i] = [j \in 1..Len(fs[C10_Roles[i]]) |-> PathOf(C10_Roles[i], fs[C10_Roles[i]][j])]
    /\ Len(groups) = Cardinality(InEvery)
    /\ \A k \in 1..Len(groups) :
         /\ Len(groups[k]) = Len(C10_Roles)
         /\ \A i \in 1..Len(groups[k]) :
              /\ extract_path(groups[k][i]) = Dir(C10_Roles[i])
              /\ extract_name(groups[k][i]) = extract_name(groups[k][1])
         /\ \A l \in 1..Len(groups) :
              extract_name(groups[k][1]) = extract_name(groups[l][1]) => k = l
    /\ \A k \in 1..Len(pulls) :
         /\ pulls[k].outcome = "ok" => C10_Sources(pulls[k].value) = groups[k]
         /\ \A n \in 1..Len(pulls[k].reads) :
              \E i \in 1..Len(C10_Roles) : extract_path(pulls[k].reads[n]) = Dir(C10_Roles[i])

\* a single role with two names: two elements of one record each
C10_Witness ==
  /\ Aligned
  /\ entry = "load_io_files"
  /\ Len(files) = 1
  /\ Len(Oks(pulls)) = 2
  /\ Len(groups[1]) = 1

====
